---- MODULE Spec2Model ----
(***************************************************************************)
(* A model of the document chunking, ingestion, deletion and question      *)
(* answering pipeline:                                                     *)
(*   src/src/application/services/rag_ingest_service.py  (RagIngestService) *)
(*   src/src/infrastructure/vector_store/qdrant_client.py (QdrantClient)    *)
(*   src/src/api/routes/rag.py                            (HTTP routes)     *)
(*   src/src/application/services/qa_service.py           (QAService)       *)
(*   src/src/application/services/answer_context_service.py                *)
(*                                              (AnswerContextService)     *)
(*   src/src/api/main.py, src/src/api/routes/qa.py  (QA route, handlers)    *)
(*   src/src/infrastructure/llm/blackbox_client.py   (BlackboxClient)       *)
(*                                                                         *)
(* Texts are sequences of one-character strings.  Positions inside the     *)
(* chunker are 0-based, as in the Python code; At(s, i) reads s[i].        *)
(***************************************************************************)
EXTENDS Integers, Sequences, FiniteSets, TLC

(***************************************************************************)
(* Bounds of the model                                                     *)
(***************************************************************************)
\* longest text of the exhaustively enumerated short texts
MaxTextLen == 4

(***************************************************************************)
(* Program constants, rag_ingest_service.py:11-14                          *)
(***************************************************************************)
CHUNK_SIZE_CHARS == 1500
OVERLAP_CHARS == 200
MIN_CHUNK_SIZE == 1200
MAX_CHUNK_SIZE == 1800

(***************************************************************************)
(* State                                                                   *)
(***************************************************************************)
VARIABLES
    ctext,       \* the text handed to the chunker
    cres,        \* what the chunker did with it
    collection,  \* the Qdrant collection: does it exist, its vector size
    points,      \* the points of the collection, by point id
    resp,        \* the last call and its outcome
    qa,          \* the last QAService.answer_question call and its outcome
    cit,         \* an answer text, a context count, and the citations found
    llm,         \* a BlackboxClient and its generate call
    jobs         \* the ingest calls in progress on one event loop

chunkVars == <<ctext, cres>>

indexVars == <<collection, points, resp>>

answerVars == <<qa, cit, llm, jobs>>

vars == <<ctext, cres, collection, points, resp, qa, cit, llm, jobs>>

NoCall == [op |-> "none"]

NoCitations == [op |-> "none", answer |-> <<>>, count |-> 0]

NoChunking == [op |-> "none", raised |-> "none", chunks |-> <<>>]

\* ids of the points whose payload documentId is document_id
PointsOf(pts, document_id) ==
    {id \in DOMAIN pts : pts[id].payload.documentId = document_id}

(***************************************************************************)
(* Python string primitives                                                *)
(***************************************************************************)
\* characters str.strip() removes and \s matches (those the model's texts use)
Whitespace == {" ", "\n", "\t"}

Digits == {"0", "1", "2", "3", "4", "5", "6", "7", "8", "9"}

RomanLetters == {"I", "V", "X", "L", "C", "D", "M"}

Min(a, b) == IF a <= b THEN a ELSE b

Max(a, b) == IF a >= b THEN a ELSE b

\* s[i], 0-based
At(s, i) == s[i + 1]

\* s[a:b] for 0 <= a; b is clamped to len(s) as Python slicing does
Slice(s, a, b) == SubSeq(s, a + 1, Min(b, Len(s)))

\* n copies of the character c
Rep(c, n) == [i \in 1..n |-> c]

\* str.strip()
Strip(s) ==
    IF \A i \in 1..Len(s) : s[i] \in Whitespace THEN <<>>
    ELSE LET first == CHOOSE i \in 1..Len(s) :
                          /\ s[i] \notin Whitespace
                          /\ \A j \in 1..(i - 1) : s[j] \in Whitespace
             back  == CHOOSE d \in 0..(Len(s) - 1) :
                          /\ s[Len(s) - d] \notin Whitespace
                          /\ \A e \in 0..(d - 1) : s[Len(s) - e] \in Whitespace
         IN SubSeq(s, first, Len(s) - back)

\* str.split('\n')
RECURSIVE SplitLines(_)
SplitLines(s) ==
    IF \A i \in 1..Len(s) : s[i] # "\n" THEN <<s>>
    ELSE LET p == CHOOSE i \in 1..Len(s) :
                      /\ s[i] = "\n"
                      /\ \A j \in 1..(i - 1) : s[j] # "\n"
         IN <<SubSeq(s, 1, p - 1)>> \o SplitLines(SubSeq(s, p + 1, Len(s)))

\* '\n'.join(lines)
RECURSIVE JoinLines(_)
JoinLines(lines) ==
    IF lines = <<>> THEN <<>>
    ELSE IF Len(lines) = 1 THEN lines[1]
    ELSE lines[1] \o <<"\n">> \o JoinLines(Tail(lines))

\* does sub occur in s at 0-based position i
MatchAt(s, sub, i) ==
    /\ i >= 0
    /\ i + Len(sub) <= Len(s)
    /\ \A k \in 1..Len(sub) : s[i + k] = sub[k]

\* s.rfind(sub, lo, hi): the highest position in lo..hi-len(sub) where sub
\* occurs, -1 when there is none
RFind(s, sub, lo, hi) ==
    LET top == Min(hi, Len(s)) - Len(sub)
    IN IF \A i \in lo..top : ~MatchAt(s, sub, i) THEN -1
       ELSE top - (CHOOSE d \in 0..(top - lo) :
                       /\ MatchAt(s, sub, top - d)
                       /\ \A e \in 0..(d - 1) : ~MatchAt(s, sub, top - e))

\* sub in s
Contains(s, sub) == \E i \in 0..(Len(s) - Len(sub)) : MatchAt(s, sub, i)

(***************************************************************************)
(* HEADING_PATTERNS, rag_ingest_service.py:17-22, applied with re.match to  *)
(* a stripped line.  Every pattern ends in \s+(.+)$ : after the prefix     *)
(* comes at least one whitespace character and then at least one more      *)
(* character.                                                              *)
(***************************************************************************)
\* \s+(.+)$ matched from 0-based position k of line
HeadingRest(line, k) ==
    /\ k + 2 <= Len(line)
    /\ At(line, k) \in Whitespace
    /\ \A i \in (k + 1)..(Len(line) - 1) : At(line, i) # "\n"

\* length of the longest prefix of line made of characters of set
PrefixRun(line, set) ==
    IF \A i \in 1..Len(line) : line[i] \in set THEN Len(line)
    ELSE (CHOOSE i \in 1..Len(line) :
              /\ line[i] \notin set
              /\ \A j \in 1..(i - 1) : line[j] \in set) - 1

\* ^(SECTION:|Section:)\s+(.+)$
SectionUpper == <<"S", "E", "C", "T", "I", "O", "N", ":">>

SectionTitle == <<"S", "e", "c", "t", "i", "o", "n", ":">>

MatchSECTION(line) ==
    /\ MatchAt(line, SectionUpper, 0) \/ MatchAt(line, SectionTitle, 0)
    /\ HeadingRest(line, 8)

\* ^(#{1,6})\s+(.+)$
MatchMARKDOWN(line) ==
    LET k == PrefixRun(line, {"#"})
    IN /\ k >= 1
       /\ k <= 6
       /\ HeadingRest(line, k)

\* ^(\d+(?:\.\d+)*)\s+(.+)$ : the prefix is the run of digits and dots before
\* the whitespace; it starts and ends with a digit and has no two dots in a row
MatchNUMBERED(line) ==
    LET k == PrefixRun(line, Digits \cup {"."})
    IN /\ k >= 1
       /\ line[1] \in Digits
       /\ line[k] \in Digits
       /\ \A i \in 1..(k - 1) : ~(line[i] = "." /\ line[i + 1] = ".")
       /\ HeadingRest(line, k)

\* ^([IVXLCDM]+)\.\s+(.+)$
MatchROMAN(line) ==
    LET k == PrefixRun(line, RomanLetters)
    IN /\ k >= 1
       /\ k + 1 <= Len(line)
       /\ At(line, k) = "."
       /\ HeadingRest(line, k + 1)

\* the loop over HEADING_PATTERNS of _split_into_sections, lines 151-165
IsHeading(line) ==
    LET l == Strip(line)
    IN \/ MatchSECTION(l)
       \/ MatchMARKDOWN(l)
       \/ MatchNUMBERED(l)
       \/ MatchROMAN(l)

(***************************************************************************)
(* RagIngestService._split_into_sections, rag_ingest_service.py:134-180     *)
(***************************************************************************)
Introduction == <<"I", "n", "t", "r", "o", "d", "u", "c", "t", "i", "o", "n">>

Content == <<"C", "o", "n", "t", "e", "n", "t">>

\* lines 156-159 and 171-174: the section that is saved, if it has content
SavedSection(title, cur) ==
    IF cur # <<>> /\ Strip(JoinLines(cur)) # <<>>
    THEN <<[title |-> title, text |-> Strip(JoinLines(cur))]>>
    ELSE <<>>

\* the for loop of lines 149-168 from line number i on, then lines 170-174
RECURSIVE SectionLoop(_, _, _, _, _)
SectionLoop(lines, i, sections, title, cur) ==
    IF i > Len(lines) THEN sections \o SavedSection(title, cur)
    ELSE IF IsHeading(lines[i])
         THEN SectionLoop(lines, i + 1, sections \o SavedSection(title, cur),
                          Strip(lines[i]), <<>>)
         ELSE SectionLoop(lines, i + 1, sections, title, Append(cur, lines[i]))

split_into_sections(text) ==
    LET sections == SectionLoop(SplitLines(text), 1, <<>>, Introduction, <<>>)
    IN IF sections = <<>>
       THEN <<[title |-> Content, text |-> text]>>
       ELSE sections

(***************************************************************************)
(* RagIngestService._chunk_section, rag_ingest_service.py:182-232           *)
(* The result is [raised, chunks]: raised names the exception that left    *)
(* the function ("none" when it returned chunks).                          *)
(***************************************************************************)
\* line 206: int(CHUNK_SIZE_CHARS * 0.2)
TailWindow == (CHUNK_SIZE_CHARS * 2) \div 10

\* lines 201-218: the end of the chunk that starts at start
ChunkEnd(text, start) ==
    LET end == start + CHUNK_SIZE_CHARS
        search_start == end - TailWindow
        sentence_end == Max(RFind(text, <<".", " ">>, search_start, end),
                            Max(RFind(text, <<"!", " ">>, search_start, end),
                                RFind(text, <<"?", " ">>, search_start, end)))
        space_pos == RFind(text, <<" ">>, search_start, end)
    IN IF end < Len(text)
       THEN IF sentence_end > search_start THEN sentence_end + 1
            ELSE IF space_pos > search_start THEN space_pos
            ELSE end
       ELSE end

\* line 229, `if start <= chunks[-1] if chunks else 0:` parses as
\* `(start <= chunks[-1]) if chunks else 0`.  With chunks non-empty it
\* compares an int with a str, which raises TypeError in Python 3; with
\* chunks empty the condition is 0, false.
ProgressGuard(start, chunks) ==
    IF chunks # <<>> THEN "TypeError" ELSE "false"

\* the while loop, lines 199-230
RECURSIVE ChunkLoop(_, _, _)
ChunkLoop(text, start, chunks) ==
    IF ~(start < Len(text)) THEN [raised |-> "none", chunks |-> chunks]
    ELSE LET end == ChunkEnd(text, start)
             chunk == Strip(Slice(text, start, end))
             chunks2 == IF chunk # <<>> THEN Append(chunks, chunk) ELSE chunks
             start2 == end - OVERLAP_CHARS
             guard == ProgressGuard(start2, chunks2)
         IN IF guard = "TypeError"
            THEN [raised |-> "TypeError", chunks |-> chunks2]
            ELSE ChunkLoop(text, IF guard = "true" THEN end ELSE start2, chunks2)

\* a single-chunk limit that is off by one
SingleChunkLimit_plus == MAX_CHUNK_SIZE + 1

\* line 193: a section no longer than this is returned as a single chunk
SingleChunkLimit == MAX_CHUNK_SIZE

chunk_section(text) ==
    IF Len(text) <= SingleChunkLimit
    THEN [raised |-> "none", chunks |-> <<text>>]
    ELSE ChunkLoop(text, 0, <<>>)

(***************************************************************************)
(* RagIngestService.ingest lines 70-84: sections, then the chunks of every  *)
(* section, each with its section index, chunk index and section title.    *)
(***************************************************************************)
ChunkData(title, section_idx, chunks) ==
    [chunk_idx \in 1..Len(chunks) |->
        [section_idx |-> section_idx, chunk_idx |-> chunk_idx - 1,
         section_title |-> title, text |-> chunks[chunk_idx]]]

RECURSIVE AllChunksFrom(_, _)
AllChunksFrom(sections, i) ==
    IF i > Len(sections) THEN [raised |-> "none", chunks |-> <<>>]
    ELSE LET here == chunk_section(sections[i].text)
             rest == AllChunksFrom(sections, i + 1)
         IN IF here.raised # "none" THEN [raised |-> here.raised, chunks |-> <<>>]
            ELSE IF rest.raised # "none" THEN rest
            ELSE [raised |-> "none",
                  chunks |-> ChunkData(sections[i].title, i - 1, here.chunks)
                             \o rest.chunks]

all_chunks(text) == AllChunksFrom(split_into_sections(text), 1)

(***************************************************************************)
(* Input texts                                                             *)
(***************************************************************************)
\* the characters of the exhaustively enumerated short texts
Alphabet == {"a", " ", "\n", "#", ".", "1"}

ShortTexts == UNION {[1..n -> Alphabet] : n \in 0..MaxTextLen}

\* a sentence of n characters: letters, a full stop and a space
Sentence(n) == Rep("a", n - 2) \o <<".", " ">>

\* longer texts: around the single-chunk limit, with and without word and
\* sentence boundaries, with headings, whitespace only
LongTexts ==
    { Rep("a", CHUNK_SIZE_CHARS),
      Rep("a", CHUNK_SIZE_CHARS + 1),
      Rep("a", MAX_CHUNK_SIZE),
      Rep("a", MAX_CHUNK_SIZE + 1),
      Rep("a", 2 * CHUNK_SIZE_CHARS),
      Rep(" ", MAX_CHUNK_SIZE),
      Rep(" ", MAX_CHUNK_SIZE + 1),
      Rep(" ", MAX_CHUNK_SIZE + 1) \o <<"\n", "#", " ", "a">>,
      Rep("a", 1400) \o <<" ">> \o Rep("a", 600),
      Sentence(700) \o Sentence(700) \o Sentence(700),
      <<"#", " ", "a", "\n">> \o Rep("a", MAX_CHUNK_SIZE + 1),
      Rep("a", MAX_CHUNK_SIZE) \o <<"\n", "#", " ", "a", "\n">> \o Rep("a", 5),
      <<"I", "V", ".", " ", "a", "\n", "a">>,
      <<"1", ".", "2", " ", "a", "\n", "a">>,
      SectionUpper \o <<" ", "a", "\n", "a", "a">>,
      <<"a", "\n">> \o SectionTitle \o <<" ", "a", "\n", "a", "a">> }

ChunkTexts == ShortTexts \cup LongTexts

(***************************************************************************)
(* Data of the index model                                                 *)
(***************************************************************************)
\* Python's None, where a string is expected
None == "None"

\* an Optional value that is not a plain string: <<>> is None, <<v>> is v
NoValue == <<>>

\* no result: the call raised
NoResult == [none |-> TRUE]

\* constants.py:15-17 and config.py:46 (settings.embedding_dimension)
DEFAULT_QDRANT_COLLECTION_NAME == "stock_documents"

DEFAULT_EMBEDDING_DIMENSION == 384

DEFAULT_EMBEDDING_MODEL == "all-MiniLM-L6-v2"

\* document ids of the requests; one of them contains ':' and a digit
DocIds == {<<"a">>, <<"a", ":", "0">>}

Sources == {"analysis_report"}

\* request metadata: symbol, title and the snake_case source_url
Metadatas ==
    { [symbol |-> "VNM", title |-> "Q2", sourceUrl |-> None, source_url |-> "u"] }

\* document texts of the ingest requests, by name: empty, whitespace only,
\* one section, two sections, longer than MAX_CHUNK_SIZE (letters; blanks)
IngestTexts ==
    [empty |-> <<>>,
     blank |-> <<" ">>,
     one |-> <<"a">>,
     two |-> <<"a", "\n", "#", " ", "b", "\n", "c">>,
     long |-> Rep("a", MAX_CHUNK_SIZE + 1),
     longblank |-> Rep(" ", MAX_CHUNK_SIZE + 1)]

TextNames == DOMAIN IngestTexts

\* lines 70-84 of ingest for each of the document texts
IngestChunks == [name \in TextNames |-> all_chunks(IngestTexts[name])]

\* str(n) of a non-negative int
DigitChars == <<"0", "1", "2", "3", "4", "5", "6", "7", "8", "9">>

RECURSIVE DecStr(_)
DecStr(n) ==
    IF n < 10 THEN <<DigitChars[n + 1]>>
    ELSE DecStr(n \div 10) \o <<DigitChars[(n % 10) + 1]>>

\* a point id that counts the points already stored instead of being
\* determined by the document and the position
PointId_counter(document_id, section_idx, chunk_idx) ==
    document_id \o <<":">> \o DecStr(section_idx + Cardinality(DOMAIN points))
        \o <<":">> \o DecStr(chunk_idx)

\* rag_ingest_service.py:95, f"{document_id}:{section_idx}:{chunk_idx}"
PointId(document_id, section_idx, chunk_idx) ==
    document_id \o <<":">> \o DecStr(section_idx) \o <<":">> \o DecStr(chunk_idx)

\* the embedding lengths the configured sentence-transformers model can have
\* (embedding_service.py:27, config.py:42): the length of the default model
\* and a longer one; settings.embedding_dimension (config.py:46) is a setting
\* of its own and keeps its default
EmbeddingDimensions ==
    {DEFAULT_EMBEDDING_DIMENSION, 2 * DEFAULT_EMBEDDING_DIMENSION}

\* EmbeddingService.generate_embedding: a vector determined by the text and
\* the model; the model keeps its length and a key that stands for its
\* direction
generate_embedding(text, dim) ==
    [dim |-> dim, key |-> Len(text) % 3]

\* rag_ingest_service.py:66-68 and 98-106
Payload(document_id, source, metadata, chunk_data) ==
    [text |-> chunk_data.text,
     source |-> source,
     documentId |-> document_id,
     symbol |-> metadata.symbol,
     section |-> chunk_data.section_title,
     title |-> metadata.title,
     sourceUrl |-> IF metadata.sourceUrl # None THEN metadata.sourceUrl
                   ELSE metadata.source_url]

\* points whose ids leave the document out
BuildPoints_unscoped(document_id, source, metadata, chunks, dim) ==
    [i \in 1..Len(chunks) |->
        [id |-> PointId(<<>>, chunks[i].section_idx, chunks[i].chunk_idx),
         vector |-> generate_embedding(chunks[i].text, dim),
         payload |-> Payload(document_id, source, metadata, chunks[i])]]

\* rag_ingest_service.py:89-112, the points built from the chunks
BuildPoints(document_id, source, metadata, chunks, dim) ==
    [i \in 1..Len(chunks) |->
        [id |-> PointId(document_id, chunks[i].section_idx, chunks[i].chunk_idx),
         vector |-> generate_embedding(chunks[i].text, dim),
         payload |-> Payload(document_id, source, metadata, chunks[i])]]

(***************************************************************************)
(* QdrantClient.upsert and ensure_collection, qdrant_client.py:128-170.     *)
(* fail names the client call that fails with an error other than          *)
(* UnexpectedResponse ("none": no call fails).  get_collection answers     *)
(* UnexpectedResponse exactly when the collection does not exist, which is *)
(* how the code reads that exception.  The result is the new collection,   *)
(* the new points, and the exception raised ("none" when it returned).     *)
(***************************************************************************)
UpsertFailures == {"none", "get_collection", "create_collection", "upsert"}

\* an upsert that leaves only the points of the batch in the collection
Upserted_only(pts, vectors) ==
    LET ids == {vectors[i].id : i \in 1..Len(vectors)}
    IN [id \in ids |->
           LET last == CHOOSE i \in 1..Len(vectors) :
                           /\ vectors[i].id = id
                           /\ \A j \in (i + 1)..Len(vectors) : vectors[j].id # id
           IN [vector |-> vectors[last].vector, payload |-> vectors[last].payload]]

\* client.upsert: insert or replace by id; of two points with one id in the
\* batch the later one stays
Upserted(pts, vectors) ==
    LET ids == {vectors[i].id : i \in 1..Len(vectors)}
        lastOf(id) == CHOOSE i \in 1..Len(vectors) :
                          /\ vectors[i].id = id
                          /\ \A j \in (i + 1)..Len(vectors) : vectors[j].id # id
    IN [id \in DOMAIN pts \cup ids |->
           IF id \in ids
           THEN [vector |-> vectors[lastOf(id)].vector,
                 payload |-> vectors[lastOf(id)].payload]
           ELSE pts[id]]

\* ensure_collection(vector_size=None), lines 151-170
ensure_collection(coll, fail) ==
    IF fail = "get_collection"
    THEN [collection |-> coll, raised |-> "VectorStoreError"]
    ELSE IF coll.exists
    THEN [collection |-> coll, raised |-> "none"]
    ELSE IF fail = "create_collection"
    THEN [collection |-> coll, raised |-> "Exception"]
    ELSE [collection |-> [exists |-> TRUE, size |-> DEFAULT_EMBEDDING_DIMENSION],
          raised |-> "none"]

\* client.upsert answers UnexpectedResponse (400) when a vector's length is
\* not the collection's vector size
WrongDimension(coll, vectors) ==
    \E i \in 1..Len(vectors) : vectors[i].vector.dim # coll.size

\* lines 128-149
upsert_swallow(coll, pts, vectors, fail) ==
    LET ensured == ensure_collection(coll, fail)
    IN IF \/ ensured.raised # "none"
          \/ fail = "upsert"
          \/ WrongDimension(ensured.collection, vectors)
       THEN [collection |-> ensured.collection, points |-> pts, raised |-> "none"]
       ELSE [collection |-> ensured.collection,
             points |-> Upserted(pts, vectors),
             raised |-> "none"]

upsert(coll, pts, vectors, fail) ==
    LET ensured == ensure_collection(coll, fail)
    IN IF ensured.raised # "none"
       THEN [collection |-> ensured.collection, points |-> pts,
             raised |-> "VectorStoreError"]
       ELSE IF fail = "upsert" \/ WrongDimension(ensured.collection, vectors)
       THEN [collection |-> ensured.collection, points |-> pts,
             raised |-> "VectorStoreError"]
       ELSE [collection |-> ensured.collection,
             points |-> Upserted(pts, vectors),
             raised |-> "none"]

(***************************************************************************)
(* RagIngestService.ingest, rag_ingest_service.py:44-132.                   *)
(* embed_fail is the number of the embedding call that fails (0: none).    *)
(***************************************************************************)
\* lines 119-132
IngestResult(document_id, pts) ==
    [chunksUpserted |-> Len(pts),
     documentId |-> document_id,
     collection |-> DEFAULT_QDRANT_COLLECTION_NAME,
     embeddingModel |-> DEFAULT_EMBEDDING_MODEL]

\* the record of an ingest call: its arguments (the text by name), whether
\* the call before it was a returned ingest of the same document and text,
\* the number of points the document had before it, its outcome ("returned"
\* with a result or "raised" with an error), the ids of the points it wrote,
\* the calls it made on the embedding provider and on the vector store, and
\* the calls that failed (embed_fail, fail), and the length of the embeddings
IngestRecord(document_id, text, outcome, error, result, ids, embed_calls, store_calls, embed_fail, fail, dim) ==
    [op |-> "ingest", document_id |-> document_id, text |-> text,
     embed_fail |-> embed_fail, fail |-> fail, dim |-> dim,
     repeat |-> /\ resp.op = "ingest"
                /\ resp.outcome = "returned"
                /\ resp.document_id = document_id
                /\ resp.text = text,
     count_before |-> Cardinality(PointsOf(points, document_id)),
     outcome |-> outcome, error |-> error, result |-> result, ids |-> ids,
     embed_calls |-> embed_calls, store_calls |-> store_calls]

ingest(document_id, source, text, metadata, dim, embed_fail, fail) ==
    LET chunked == IngestChunks[text]
        n == Len(chunked.chunks)
        pts == BuildPoints(document_id, source, metadata, chunked.chunks, dim)
        stored == upsert(collection, points, pts, fail)
        raised(error, embed_calls, store_calls) ==
            IngestRecord(document_id, text, "raised", error, NoResult, {},
                         embed_calls, store_calls, embed_fail, fail, dim)
    IN /\ embed_fail \in 0..(IF chunked.raised = "none" THEN n ELSE 0)
       /\ dim # DEFAULT_EMBEDDING_DIMENSION => (embed_fail = 0 /\ fail = "none")
       /\ embed_fail # 0 => fail = "none"
       /\ (chunked.raised # "none") => fail = "none"
       /\ fail = "create_collection" => ~collection.exists
       /\ IF chunked.raised # "none"
          THEN /\ resp' = raised(chunked.raised, 0, 0)
               /\ UNCHANGED <<collection, points>>
          ELSE IF embed_fail # 0
          THEN /\ resp' = raised("EmbeddingServiceError", embed_fail, 0)
               /\ UNCHANGED <<collection, points>>
          ELSE IF stored.raised # "none"
          THEN /\ resp' = raised(stored.raised, n, 1)
               /\ collection' = stored.collection
               /\ UNCHANGED points
          ELSE /\ resp' = IngestRecord(document_id, text, "returned", None,
                                        IngestResult(document_id, pts),
                                        {pts[i].id : i \in 1..n}, n, 1,
                                        embed_fail, fail, dim)
               /\ collection' = stored.collection
               /\ points' = stored.points
       /\ UNCHANGED chunkVars
       /\ UNCHANGED answerVars

Ingest ==
    \E document_id \in DocIds, source \in Sources, text \in TextNames,
       metadata \in Metadatas, dim \in EmbeddingDimensions,
       embed_fail \in 0..2, fail \in UpsertFailures :
        ingest(document_id, source, text, metadata, dim, embed_fail, fail)

(***************************************************************************)
(* IngestRequest and POST /rag/ingest, rag.py:15-43 and 97-153              *)
(***************************************************************************)
\* the configured key (settings.internal_api_key or INTERNAL_API_KEY): not
\* set, empty, or a key
ExpectedKeys == {NoValue, <<"">>, <<"k">>}

\* the X-Internal-Api-Key header of a request: absent, empty, the key, another
HeaderKeys == {NoValue, <<"">>, <<"k">>, <<"x">>}

GateInputs == [expected_key : ExpectedKeys, x_internal_api_key : HeaderKeys]

\* no key configured and no header sent
NoGate == [expected_key |-> NoValue, x_internal_api_key |-> NoValue]

\* `not v` of an Optional[str]
Falsy(v) == v = NoValue \/ v = <<"">>

\* a gate that only asks for a header
validate_api_key_present(expected_key, x_internal_api_key) ==
    IF Falsy(expected_key) THEN 200
    ELSE IF Falsy(x_internal_api_key) THEN 401
    ELSE 200

\* rag.py:61-94: the status the dependency answers with (200: it returned)
validate_api_key(expected_key, x_internal_api_key) ==
    IF Falsy(expected_key) THEN 200
    ELSE IF Falsy(x_internal_api_key) THEN 401
    ELSE IF x_internal_api_key # expected_key THEN 401
    ELSE 200

\* chunk_size: Optional[int], ge=300, le=4000 (lines 21-26)
ChunkSizeFieldOk(chunk_size) ==
    chunk_size = NoValue \/ (chunk_size[1] >= 300 /\ chunk_size[1] <= 4000)

\* chunk_overlap: Optional[int], ge=0, le=1000 (lines 27-32)
ChunkOverlapFieldOk(chunk_overlap) ==
    chunk_overlap = NoValue \/ (chunk_overlap[1] >= 0 /\ chunk_overlap[1] <= 1000)

\* a validator that lets chunk_overlap = chunk_size through
validate_overlap_greater(v, chunk_size) ==
    ~(v # NoValue /\ chunk_size # NoValue /\ v[1] > chunk_size[1])

\* lines 34-43; chunk_size is info.data.get("chunk_size"): the validated
\* chunk_size, None when it was not given or did not validate
validate_overlap_less_than_size(v, chunk_size) ==
    ~(v # NoValue /\ chunk_size # NoValue /\ v[1] >= chunk_size[1])

\* the request model accepts the two fields
IngestRequestValid(chunk_size, chunk_overlap) ==
    /\ ChunkSizeFieldOk(chunk_size)
    /\ ChunkOverlapFieldOk(chunk_overlap)
    /\ validate_overlap_less_than_size(
           chunk_overlap,
           IF ChunkSizeFieldOk(chunk_size) THEN chunk_size ELSE NoValue)

ChunkSizeInputs == {NoValue, <<299>>, <<300>>, <<500>>, <<4000>>, <<4001>>}

ChunkOverlapInputs ==
    {NoValue, <<-1>>, <<0>>, <<299>>, <<300>>, <<500>>, <<1000>>, <<1001>>}

\* a request the model rejects is answered 422 and the handler does not run;
\* the handler calls service.ingest with the keywords chunk_size and
\* chunk_overlap (lines 127-134), which RagIngestService.ingest (line 44-50)
\* does not take: TypeError, answered 500 by lines 148-153
\* the dependency validate_api_key answers 401 and the handler does not run
Unauthorized(route, expected_key, x_internal_api_key) ==
    [op |-> "validate_api_key", route |-> route,
     expected_key |-> expected_key, x_internal_api_key |-> x_internal_api_key,
     status_code |-> 401, service_called |-> FALSE]

ingest_document(expected_key, x_internal_api_key, chunk_size, chunk_overlap) ==
    /\ resp' = IF validate_api_key(expected_key, x_internal_api_key) # 200
               THEN Unauthorized("ingest_document", expected_key, x_internal_api_key)
               ELSE [op |-> "ingest_document",
                     expected_key |-> expected_key,
                     x_internal_api_key |-> x_internal_api_key,
                     chunk_size |-> chunk_size, chunk_overlap |-> chunk_overlap,
                     service_called |-> IngestRequestValid(chunk_size, chunk_overlap),
                     status_code |-> IF IngestRequestValid(chunk_size, chunk_overlap)
                                     THEN 500 ELSE 422]
    /\ UNCHANGED <<collection, points>>
    /\ UNCHANGED chunkVars
    /\ UNCHANGED answerVars

\* the requests with a key configured or a key sent carry the default chunk
\* parameters
IngestRoute ==
    \E gate \in GateInputs, chunk_size \in ChunkSizeInputs,
       chunk_overlap \in ChunkOverlapInputs :
        /\ gate # NoGate => (chunk_size = NoValue /\ chunk_overlap = NoValue)
        /\ ingest_document(gate.expected_key, gate.x_internal_api_key,
                           chunk_size, chunk_overlap)

(***************************************************************************)
(* QdrantClient.delete_document, qdrant_client.py:209-241.                  *)
(* fail names the client call that fails with an error other than          *)
(* UnexpectedResponse; count answers UnexpectedResponse exactly when the   *)
(* collection does not exist.                                              *)
(***************************************************************************)
DeleteFailures == {"none", "count", "delete"}

\* a count without the documentId filter
CountDocument_unfiltered(pts, document_id) == Cardinality(DOMAIN pts)

\* client.count(count_filter=documentId == document_id, exact=True)
CountDocument(pts, document_id) == Cardinality(PointsOf(pts, document_id))

\* a delete without the documentId filter
WithoutDocument_all(pts, document_id) == [id \in {} |-> pts[id]]

\* client.delete(points_selector=documentId == document_id)
WithoutDocument(pts, document_id) ==
    [id \in DOMAIN pts \ PointsOf(pts, document_id) |-> pts[id]]

\* a delete_document that answers 0 to every failure of the index
vs_delete_document_swallow(coll, pts, document_id, fail) ==
    IF fail = "count" \/ ~coll.exists \/ fail = "delete"
    THEN [points |-> pts, raised |-> "none", returned |-> <<0>>]
    ELSE [points |-> WithoutDocument(pts, document_id), raised |-> "none",
          returned |-> <<CountDocument(pts, document_id)>>]

vs_delete_document(coll, pts, document_id, fail) ==
    IF fail = "count"
    THEN [points |-> pts, raised |-> "VectorStoreError", returned |-> NoValue]
    ELSE IF ~coll.exists
    THEN [points |-> pts, raised |-> "none", returned |-> <<0>>]
    ELSE IF fail = "delete"
    THEN [points |-> pts, raised |-> "VectorStoreError", returned |-> NoValue]
    ELSE [points |-> WithoutDocument(pts, document_id), raised |-> "none",
          returned |-> <<CountDocument(pts, document_id)>>]

\* RagIngestService.delete_document, called by the route and exercised by
\* tests/integration/test_api_rag_delete.py: passes the id to the vector
\* store and wraps the count
service_delete_document(document_id, deleted) ==
    [documentId |-> document_id, deleted |-> deleted, status |-> "ok"]

\* DELETE /rag/doc/{document_id}, rag.py:156-175
delete_document(expected_key, x_internal_api_key, document_id, fail) ==
    LET done == vs_delete_document(collection, points, document_id, fail)
    IN IF validate_api_key(expected_key, x_internal_api_key) # 200
       THEN
       /\ fail = "none"
       /\ resp' = Unauthorized("delete_document", expected_key, x_internal_api_key)
       /\ UNCHANGED <<collection, points>>
       /\ UNCHANGED chunkVars
       /\ UNCHANGED answerVars
       ELSE
       /\ fail = "delete" => collection.exists
       /\ resp' = [op |-> "delete_document", document_id |-> document_id,
                   expected_key |-> expected_key,
                   x_internal_api_key |-> x_internal_api_key,
                   service_called |-> TRUE,
                   count_before |-> Cardinality(PointsOf(points, document_id)),
                   repeat |-> /\ resp.op = "delete_document"
                              /\ resp.document_id = document_id
                              /\ resp.status_code = 200,
                   fail |-> fail,
                   error |-> done.raised,
                   status_code |-> IF done.raised = "none" THEN 200 ELSE 500,
                   body |-> IF done.raised = "none"
                            THEN service_delete_document(document_id, done.returned[1])
                            ELSE NoResult]
       /\ points' = done.points
       /\ UNCHANGED collection
       /\ UNCHANGED chunkVars
       /\ UNCHANGED answerVars

\* the requests with a key configured or a key sent meet no failure of the
\* index
DeleteRoute ==
    \E gate \in GateInputs, document_id \in DocIds, fail \in DeleteFailures :
        /\ gate # NoGate => fail = "none"
        /\ delete_document(gate.expected_key, gate.x_internal_api_key,
                           document_id, fail)

(***************************************************************************)
(* QdrantClient.search, qdrant_client.py:40-126.                            *)
(* fail names the call that fails with an error other than                 *)
(* UnexpectedResponse; client.search answers UnexpectedResponse exactly    *)
(* when the collection does not exist.                                     *)
(***************************************************************************)
SearchFailures == {"none", "embedding", "search"}

QueryTexts == {<<"a">>}

TopKs == {1, 5}

\* filters: None, or the optional document_id, source and symbol
FilterInputs ==
    {NoValue} \cup
    [document_id : {NoValue} \cup {<<d>> : d \in DocIds},
     source : {NoValue, <<"analysis_report">>},
     symbol : {NoValue, <<"VNM">>, <<"FPT">>}]

\* lines 64-85: the must conditions, as pairs of payload key and value
FilterConditions(filters) ==
    IF filters = NoValue THEN {}
    ELSE (IF filters.document_id # NoValue
          THEN {<<"documentId", filters.document_id[1]>>} ELSE {})
         \cup (IF filters.source # NoValue
               THEN {<<"source", filters.source[1]>>} ELSE {})
         \cup (IF filters.symbol # NoValue
               THEN {<<"symbol", filters.symbol[1]>>} ELSE {})

\* Filter(must=conditions) on a payload
MatchesFilter(payload, conditions) ==
    \A c \in conditions :
        \/ c[1] = "documentId" /\ payload.documentId = c[2]
        \/ c[1] = "source" /\ payload.source = c[2]
        \/ c[1] = "symbol" /\ payload.symbol = c[2]

\* the similarity of two vectors: higher is closer
Score(query_vector, vector) ==
    IF query_vector.key >= vector.key
    THEN 2 - (query_vector.key - vector.key)
    ELSE 2 - (vector.key - query_vector.key)

\* lines 97-112: the source object of a hit
SourceObject(id, point, score) ==
    [documentId |-> point.payload.documentId,
     source |-> point.payload.source,
     sourceUrl |-> point.payload.sourceUrl,
     title |-> point.payload.title,
     section |-> point.payload.section,
     symbol |-> point.payload.symbol,
     chunkId |-> id,
     score |-> score,
     text |-> point.payload.text]

\* client.search(limit=top_k, query_filter=...): the ids of the best top_k
\* matching points in non-increasing score order, in every order of ties
RankedIds(pts, query_vector, top_k, conditions) ==
    LET matched == {id \in DOMAIN pts : MatchesFilter(pts[id].payload, conditions)}
        n == Min(top_k, Cardinality(matched))
        score(id) == Score(query_vector, pts[id].vector)
    IN {ids \in [1..n -> matched] :
           /\ \A i, j \in 1..n : i < j =>
                  ids[i] # ids[j] /\ score(ids[i]) >= score(ids[j])
           /\ \A id \in matched : \A i \in 1..n :
                  (\A j \in 1..n : ids[j] # id) => score(ids[i]) >= score(id)}

\* the possible results of search: [raised, sources]
search(coll, pts, query_text, top_k, filters, dim, fail) ==
    IF fail = "embedding" \/ (fail = "search" /\ coll.exists)
    THEN {[raised |-> "VectorStoreError", sources |-> <<>>]}
    ELSE IF ~coll.exists \/ dim # coll.size
    THEN {[raised |-> "none", sources |-> <<>>]}
    ELSE {[raised |-> "none",
           sources |-> [i \in 1..Len(ids) |->
                           SourceObject(ids[i], pts[ids[i]],
                                        Score(generate_embedding(query_text, dim),
                                              pts[ids[i]].vector))]] :
             ids \in RankedIds(pts, generate_embedding(query_text, dim), top_k,
                               FilterConditions(filters))}

Search ==
    \E query_text \in QueryTexts, top_k \in TopKs, filters \in FilterInputs,
       dim \in EmbeddingDimensions, fail \in SearchFailures :
        \E found \in search(collection, points, query_text, top_k, filters, dim, fail) :
            /\ fail = "search" => collection.exists
            /\ dim # DEFAULT_EMBEDDING_DIMENSION
                   => (fail = "none" /\ filters = NoValue)
            /\ resp' = [op |-> "search", top_k |-> top_k, filters |-> filters,
                        dim |-> dim, fail |-> fail,
                        error |-> found.raised, sources |-> found.sources]
            /\ UNCHANGED <<collection, points>>
            /\ UNCHANGED chunkVars
            /\ UNCHANGED answerVars

(***************************************************************************)
(* QAService.answer_question, qa_service.py:33-150, on a VectorStore       *)
(* (domain/interfaces/vector_store.py) and an LLM provider.  The store     *)
(* either raises or returns a list of hits, in any order and of any        *)
(* length; the provider either raises or answers the prompt.               *)
(***************************************************************************)
\* most hits a store returns to one search
MaxHits == 3

\* qa_service.py:92, the length of textPreview
TextPreviewLimit == 350

\* a chunk text longer than the preview: 350 times "a" and a "b"
LongChunk == Rep("a", TextPreviewLimit) \o <<"b">>

\* a chunk text that starts with a blank: the text of a document without
\* headings is indexed as it was given (rag_ingest_service.py:178)
PaddedChunk == <<" ">> \o Rep("a", TextPreviewLimit)

\* the source objects a store returns (qdrant_client.py:101-111)
Hit(chunk_idx, score, text, sourceUrl) ==
    [documentId |-> <<"a">>,
     source |-> "analysis_report",
     sourceUrl |-> sourceUrl,
     title |-> "Q2",
     section |-> Content,
     symbol |-> "VNM",
     chunkId |-> PointId(<<"a">>, 0, chunk_idx),
     score |-> score,
     text |-> text]

HitPool ==
    { Hit(0, 2, <<"a">>, "u"),
      Hit(1, 1, LongChunk, "u"),
      Hit(2, 2, PaddedChunk, None),
      Hit(3, 0, <<>>, None) }

\* lists of different hits, in every order
HitLists ==
    UNION {{hits \in [1..n -> HitPool] :
               \A i, j \in 1..n : i # j => hits[i] # hits[j]} : n \in 0..MaxHits}

\* what the store does with a search: raise ("VectorStoreError" from
\* QdrantClient.search, "Exception" from another store) or return hits
StoreFailures == {"none", "VectorStoreError", "Exception"}

StoreOutcomes ==
    [fail : StoreFailures \ {"none"}, hits : {<<>>}]
    \cup [fail : {"none"}, hits : HitLists]

LLMFailures == {"none", "LLMProviderError", "LLMQuotaExceededError"}

Questions == {<<"a">>}

BaseContexts == {None, "", "ctx"}

\* top_k of the request, qa.py:29 (1..20, 6 when absent)
QATopKs == {1, 2, 6}

\* lines 62-67 and 75: the filters handed to search, None when all are None
QAFilters_no_symbol(document_id, source, symbol) ==
    IF document_id = NoValue /\ source = NoValue
    THEN NoValue
    ELSE [document_id |-> document_id, source |-> source, symbol |-> NoValue]

QAFilters(document_id, source, symbol) ==
    IF document_id = NoValue /\ source = NoValue /\ symbol = NoValue
    THEN NoValue
    ELSE [document_id |-> document_id, source |-> source, symbol |-> symbol]

\* lines 83-87, sorted(..., key=score, reverse=True): non-increasing score,
\* hits of equal score in the order the store returned them
SortedByScore_unsorted(hits) == hits

SortedByScore(hits) ==
    LET n == Len(hits)
        perm == CHOOSE p \in [1..n -> 1..n] :
                    \A i, j \in 1..n : i < j =>
                        \/ hits[p[i]].score > hits[p[j]].score
                        \/ /\ hits[p[i]].score = hits[p[j]].score
                           /\ p[i] < p[j]
    IN [i \in 1..n |-> hits[perm[i]]]

\* line 87, [:top_k]
Truncated(hits, top_k) == SubSeq(hits, 1, Min(top_k, Len(hits)))

\* lines 91-92
TextPreview_whole(text) == text

TextPreview(text) ==
    IF Len(text) > TextPreviewLimit THEN SubSeq(text, 1, TextPreviewLimit)
    ELSE text

\* lines 90-105: the source object of a hit, with the request's values where
\* the hit has none
QASourceObject(hit, document_id, source, symbol) ==
    [documentId |-> IF hit.documentId # <<>> THEN hit.documentId
                    ELSE IF document_id # NoValue THEN document_id[1] ELSE <<>>,
     source |-> IF hit.source \notin {None, ""} THEN hit.source
                ELSE IF source # NoValue THEN source[1] ELSE "",
     sourceUrl |-> IF hit.sourceUrl \notin {None, ""} THEN hit.sourceUrl ELSE None,
     title |-> IF hit.title \notin {None, ""} THEN hit.title ELSE "Unknown",
     section |-> hit.section,
     symbol |-> IF hit.symbol \notin {None, ""} THEN hit.symbol
                ELSE IF symbol # NoValue THEN symbol[1] ELSE "",
     chunkId |-> hit.chunkId,
     score |-> hit.score,
     textPreview |-> TextPreview(Strip(hit.text)),
     text |-> Strip(hit.text)]

\* lines 141-145: the source object without its text
Trimmed(source_obj) ==
    [key \in DOMAIN source_obj \ {"text"} |-> source_obj[key]]

\* lines 107-135: the prompt, as its parts: the base context when it is
\* given, the numbered documents, the question
Prompt(question, base_context, sources) ==
    [base_context |-> IF base_context \notin {None, ""} THEN <<base_context>>
                      ELSE NoValue,
     documents |-> [i \in 1..Len(sources) |->
                       [idx |-> i,
                        title |-> sources[i].title,
                        section |-> IF sources[i].section # <<>>
                                    THEN sources[i].section ELSE <<"N", "/", "A">>,
                        sourceUrl |-> IF sources[i].sourceUrl # None
                                      THEN sources[i].sourceUrl ELSE "null",
                        text |-> IF sources[i].text # <<>> THEN sources[i].text
                                 ELSE sources[i].textPreview]],
     question |-> question]

\* llm_provider.generate(prompt): the answer is determined by the prompt
LLMAnswer(prompt) == [answer_to |-> prompt]

\* lines 70-80: the hits the service goes on with, none when search raised
SourcesRaw(store) == IF store.fail # "none" THEN <<>> ELSE store.hits

\* lines 71-80: the exception that leaves the try statement; except Exception
\* catches every failure of the search
SearchErrorPropagated_uncaught(store) == store.fail

SearchErrorPropagated(store) == "none"

\* str(exc) of an exception raised inside the service: the text the raiser
\* gave it (blackbox_client.py:99, 110-112: "Error generating content with
\* <model>: <provider error>")
ExceptionText(error) == <<"str", error>>

\* POST /qa, qa.py:41-90, answered through the exception handlers of
\* main.py:67-111: the handler has no try/except, so an exception of the
\* service is answered by the handler registered for its class
qa_route(outcome, error) ==
    IF outcome = "returned"
    THEN [status_code |-> 200, error |-> "", message |-> <<>>]
    ELSE IF error = "LLMQuotaExceededError"
    THEN [status_code |-> 503, error |-> "LLM quota exceeded",
          message |-> ExceptionText(error)]
    ELSE IF error = "LLMProviderError"
    THEN [status_code |-> 502, error |-> "LLM provider error",
          message |-> ExceptionText(error)]
    ELSE [status_code |-> 503, error |-> "Vector store error",
          message |-> ExceptionText(error)]

answer_question(question, base_context, top_k, document_id, source, symbol, store, llm_fail) ==
    LET filters == QAFilters(document_id, source, symbol)
        sources_raw == SourcesRaw(store)
        sources_sorted == Truncated(SortedByScore(sources_raw), top_k)
        sources == [i \in 1..Len(sources_sorted) |->
                       QASourceObject(sources_sorted[i], document_id, source, symbol)]
        prompt == Prompt(question, base_context, sources)
        call == [op |-> "answer_question", question |-> question,
                 base_context |-> base_context, top_k |-> top_k,
                 document_id |-> document_id, source |-> source,
                 symbol |-> symbol, store |-> store, llm_fail |-> llm_fail,
                 search_filters |-> filters,
                 search_conditions |-> FilterConditions(filters)]
    IN \* a store that filters returns only hits that match the filter
       /\ \A i \in 1..Len(store.hits) :
              MatchesFilter(store.hits[i], FilterConditions(filters))
       /\ IF SearchErrorPropagated(store) # "none"
          THEN qa' = call @@ [outcome |-> "raised", error |-> store.fail,
                              response |-> qa_route("raised", store.fail),
                              llm_calls |-> 0, prompt |-> NoResult,
                              answer |-> NoResult, sources |-> <<>>]
          ELSE IF llm_fail # "none"
          THEN qa' = call @@ [outcome |-> "raised", error |-> llm_fail,
                              response |-> qa_route("raised", llm_fail),
                              llm_calls |-> 1, prompt |-> prompt,
                              answer |-> NoResult, sources |-> <<>>]
          ELSE qa' = call @@ [outcome |-> "returned", error |-> None,
                              response |-> qa_route("returned", None),
                              llm_calls |-> 1, prompt |-> prompt,
                              answer |-> LLMAnswer(prompt),
                              sources |-> [i \in 1..Len(sources) |->
                                              Trimmed(sources[i])]]
       /\ UNCHANGED <<chunkVars, indexVars, cit, llm, jobs>>

AnswerQuestion ==
    /\ qa.op = "none"
    /\ \E question \in Questions, base_context \in BaseContexts, top_k \in QATopKs,
          document_id \in {NoValue} \cup {<<d>> : d \in DocIds},
          source \in {NoValue, <<"analysis_report">>},
          symbol \in {NoValue, <<"VNM">>, <<"FPT">>, <<"">>},
          store \in StoreOutcomes, llm_fail \in LLMFailures :
           answer_question(question, base_context, top_k, document_id, source,
                           symbol, store, llm_fail)

(***************************************************************************)
(* AnswerContextService._extract_citations and answer_question,            *)
(* answer_context_service.py:25-83 and 111-148                             *)
(***************************************************************************)
\* most pieces an answer text is put together from
MaxPieces == 3

\* pieces of answer texts: citations, bracketed numbers that are none,
\* and the characters they are made of
Pieces ==
    { <<"[", "1", "]">>, <<"[", "2", "]">>, <<"[", "1", "2", "]">>,
      <<"[", "0", "1", "]">>, <<"[", "1", "2", "3", "]">>,
      <<"[", "2", "0", "2", "4", "]">>,
      <<"[">>, <<"1">>, <<"]">>, <<"a">> }

RECURSIVE Concat(_)
Concat(pieces) ==
    IF pieces = <<>> THEN <<>> ELSE Head(pieces) \o Concat(Tail(pieces))

\* the answers of the LLM
AnswerTexts ==
    UNION {{Concat(pieces) : pieces \in [1..n -> Pieces]} : n \in 0..MaxPieces}

\* len(context_parts); 0 reaches _extract_citations only when it is called
\* on its own, answer_question refuses an empty list
ContextCounts == {0, 1, 2, 12, 123}

\* int(x) of one digit
DigitValue(c) == CHOOSE d \in 0..9 : DigitChars[d + 1] = c

\* line 128, the pattern \[(\d{1,2})\] at position i (1-based): <<n>> when it
\* matches there with the number n, <<>> when it does not
CitationAt_prefix(answer, i) ==
    IF answer[i] # "["
    THEN <<>>
    ELSE IF /\ i + 2 <= Len(answer)
            /\ answer[i + 1] \in Digits
            /\ answer[i + 2] \in Digits
    THEN <<10 * DigitValue(answer[i + 1]) + DigitValue(answer[i + 2])>>
    ELSE IF /\ i + 2 <= Len(answer)
            /\ answer[i + 1] \in Digits
            /\ answer[i + 2] = "]"
    THEN <<DigitValue(answer[i + 1])>>
    ELSE <<>>

CitationAt(answer, i) ==
    IF answer[i] # "["
    THEN <<>>
    ELSE IF /\ i + 3 <= Len(answer)
            /\ answer[i + 1] \in Digits
            /\ answer[i + 2] \in Digits
            /\ answer[i + 3] = "]"
    THEN <<10 * DigitValue(answer[i + 1]) + DigitValue(answer[i + 2])>>
    ELSE IF /\ i + 2 <= Len(answer)
            /\ answer[i + 1] \in Digits
            /\ answer[i + 2] = "]"
    THEN <<DigitValue(answer[i + 1])>>
    ELSE <<>>

\* lines 128-134: the numbers of all matches (a match starts with its only
\* "[", so no two matches overlap)
Nums(answer) ==
    {CitationAt(answer, i)[1] :
        i \in {j \in 1..Len(answer) : CitationAt(answer, j) # <<>>}}

\* line 139, the range check
InRange_unbounded(n, context_parts_count) == 1 <= n

InRange(n, context_parts_count) == 1 <= n /\ n <= context_parts_count

\* lines 137-140
ValidIndices(answer, context_parts_count) ==
    {n - 1 : n \in {m \in Nums(answer) : InRange(m, context_parts_count)}}

\* line 145
Fallback_empty == <<>>

Fallback == <<0>>

\* line 148, sorted(list(valid_indices))
SortedList_descending(S) ==
    CHOOSE seq \in [1..Cardinality(S) -> S] :
        \A i, j \in 1..Cardinality(S) : i < j => seq[i] > seq[j]

SortedList(S) ==
    CHOOSE seq \in [1..Cardinality(S) -> S] :
        \A i, j \in 1..Cardinality(S) : i < j => seq[i] < seq[j]

extract_citations(answer, context_parts_count) ==
    IF ValidIndices(answer, context_parts_count) = {}
    THEN Fallback
    ELSE SortedList(ValidIndices(answer, context_parts_count))

\* _extract_citations called with an answer and a count
ExtractCitationsCall ==
    /\ cit.op = "none"
    /\ cit' = [op |-> "extract_citations", answer |-> cit.answer,
               count |-> cit.count, raised |-> "none",
               citations |-> extract_citations(cit.answer, cit.count)]
    /\ UNCHANGED <<chunkVars, indexVars, qa, llm, jobs>>

\* answer_question with cit.count context parts, the LLM answering cit.answer
\* or failing
ContextAnswerCall ==
    /\ cit.op = "none"
    /\ \E llm_fail \in LLMFailures :
           cit' = [op |-> "answer_question", answer |-> cit.answer,
                   count |-> cit.count,
                   raised |-> IF cit.count = 0 THEN "ValueError"
                              ELSE llm_fail,
                   citations |-> IF cit.count = 0 \/ llm_fail # "none" THEN <<>>
                                 ELSE extract_citations(cit.answer, cit.count)]
    /\ UNCHANGED <<chunkVars, indexVars, qa, llm, jobs>>

CiteInit ==
    /\ ctext = <<>>
    /\ cres = NoChunking
    /\ collection = [exists |-> FALSE, size |-> 0]
    /\ points = <<>>
    /\ resp = NoCall
    /\ qa = NoCall
    /\ llm = NoCall
    /\ jobs = <<>>
    /\ cit \in [op : {"none"}, answer : AnswerTexts, count : ContextCounts]

CiteNext == ExtractCitationsCall \/ ContextAnswerCall

SpecCite == CiteInit /\ [][CiteNext]_vars

(***************************************************************************)
(* The chunker on its own: every input text, _chunk_section applied to it  *)
(* as a section text, and lines 70-84 of ingest applied to it as a         *)
(* document text.                                                          *)
(***************************************************************************)
ChunkInit ==
    /\ ctext \in ChunkTexts
    /\ cres = NoChunking
    /\ collection = [exists |-> FALSE, size |-> 0]
    /\ points = <<>>
    /\ resp = NoCall
    /\ qa = NoCall
    /\ llm = NoCall
    /\ jobs = <<>>
    /\ cit = NoCitations

ChunkSectionCall ==
    /\ cres.op = "none"
    /\ cres' = [op |-> "chunk_section",
                raised |-> chunk_section(ctext).raised,
                chunks |-> chunk_section(ctext).chunks]
    /\ UNCHANGED ctext
    /\ UNCHANGED indexVars
    /\ UNCHANGED answerVars

AllChunksCall ==
    /\ cres.op = "none"
    /\ cres' = [op |-> "all_chunks",
                raised |-> all_chunks(ctext).raised,
                chunks |-> [i \in 1..Len(all_chunks(ctext).chunks) |->
                               all_chunks(ctext).chunks[i].text]]
    /\ UNCHANGED ctext
    /\ UNCHANGED indexVars
    /\ UNCHANGED answerVars

ChunkNext == ChunkSectionCall \/ AllChunksCall

SpecChunk == ChunkInit /\ [][ChunkNext]_vars

(***************************************************************************)
(* The index and the calls on it                                           *)
(***************************************************************************)
Init ==
    /\ ctext = <<>>
    /\ cres = NoChunking
    /\ collection = [exists |-> FALSE, size |-> 0]
    /\ points = <<>>
    /\ resp = NoCall
    /\ qa = NoCall
    /\ llm = NoCall
    /\ jobs = <<>>
    /\ cit = NoCitations

Next == Ingest \/ IngestRoute \/ DeleteRoute \/ Search

Spec == Init /\ [][Next]_vars

(***************************************************************************)
(* Question answering on a store of its own                                *)
(***************************************************************************)
QANext == AnswerQuestion

SpecQA == Init /\ [][QANext]_vars

(***************************************************************************)
(* BlackboxClient, blackbox_client.py:14-161.  The variable llm is the     *)
(* client: model_name and current_model_index, and of the generate call in *)
(* progress or last made: the position (pc), models_tried, the indices     *)
(* still to try, the attempts made (model and what the provider did), the  *)
(* model and index the call started with, and how it ended.                *)
(***************************************************************************)
\* the number of generate and rotate_model calls on one client
MaxCalls == 3

\* constants.py:4-8
AVAILABLE_BLACKBOX_MODELS ==
    <<"blackboxai/openai/gpt-4", "blackboxai/openai/gpt-4-turbo", "blackboxai/openai/gpt-3.5-turbo">>

\* constants.py:64
QUOTA_ERROR_PATTERNS ==
    <<<<"4", "2", "9">>,
      <<"q", "u", "o", "t", "a">>,
      <<"Q", "u", "o", "t", "a", " ", "e", "x", "c", "e", "e", "d", "e", "d">>,
      <<"r", "a", "t", "e", " ", "l", "i", "m", "i", "t">>>>

UpperCase ==
    <<"A", "B", "C", "D", "E", "F", "G", "H", "I", "J", "K", "L", "M", "N", "O", "P", "Q", "R", "S", "T", "U", "V", "W", "X", "Y", "Z">>

LowerCase ==
    <<"a", "b", "c", "d", "e", "f", "g", "h", "i", "j", "k", "l", "m", "n", "o", "p", "q", "r", "s", "t", "u", "v", "w", "x", "y", "z">>

\* str.lower()
Lower(s) ==
    [i \in 1..Len(s) |->
        IF \E k \in 1..Len(UpperCase) : UpperCase[k] = s[i]
        THEN LowerCase[CHOOSE k \in 1..Len(UpperCase) : UpperCase[k] = s[i]]
        ELSE s[i]]

\* texts of the provider's errors that name a quota: "429", "Rate Limit"
QuotaErrorTexts ==
    {<<"4", "2", "9">>,
     <<"R", "a", "t", "e", " ", "L", "i", "m", "i", "t">>}

\* texts of other errors: "timeout", "500"
OtherErrorTexts ==
    {<<"t", "i", "m", "e", "o", "u", "t">>,
     <<"5", "0", "0">>}

\* str(e) of the IndexError of response.choices[0] on a response without
\* choices (lines 82 and 130)
NoChoicesText == <<"l", "i", "s", "t", " ", "i", "n", "d", "e", "x", " ", "o", "u", "t", " ", "o", "f", " ", "r", "a", "n", "g", "e">>

\* what the provider does with one chat.completions.create: it answers with
\* content, it answers without choices, or the call raises with a text
AttemptOutcomes ==
    {[kind |-> "content", text |-> <<>>],
     [kind |-> "no_choices", text |-> NoChoicesText]}
    \cup [kind : {"raise"}, text : QuotaErrorTexts \cup OtherErrorTexts]

ModelNames == {AVAILABLE_BLACKBOX_MODELS[i] : i \in 1..Len(AVAILABLE_BLACKBOX_MODELS)}

\* AVAILABLE_BLACKBOX_MODELS.index(model_name), 0-based
IndexOf(model_name) ==
    (CHOOSE i \in 1..Len(AVAILABLE_BLACKBOX_MODELS) :
         /\ AVAILABLE_BLACKBOX_MODELS[i] = model_name
         /\ \A j \in 1..(i - 1) : AVAILABLE_BLACKBOX_MODELS[j] # model_name) - 1

\* the model_name argument of the constructor: None, empty, a model of the
\* list, a name that is not in the list
ModelArgs == {NoValue, <<"">>, <<"unknown-model">>} \cup {<<m>> : m \in ModelNames}

\* lines 36-43: the model names the constructor can end with
ChosenModels(model_name) ==
    IF model_name # NoValue /\ model_name # <<"">>
    THEN IF model_name[1] \notin ModelNames
         THEN {AVAILABLE_BLACKBOX_MODELS[1]}
         ELSE {model_name[1]}
    ELSE ModelNames

\* __init__, lines 17-52
BlackboxClient(model_name) ==
    [model_name |-> model_name,
     current_model_index |-> IF model_name \in ModelNames THEN IndexOf(model_name)
                             ELSE 0,
     op |-> "__init__", pc |-> "idle", calls |-> 0,
     models_tried |-> <<>>, available_indices |-> <<>>, attempts |-> <<>>,
     start_model |-> model_name,
     start_index |-> IF model_name \in ModelNames THEN IndexOf(model_name) ELSE 0,
     outcome |-> "none", content |-> NoValue]

\* an error text that every pattern is taken to match
is_quota_error_any(error_str) == TRUE

\* lines 91-94 and 135-138
is_quota_error(error_str) ==
    \E p \in 1..Len(QUOTA_ERROR_PATTERNS) :
        Contains(Lower(error_str), Lower(QUOTA_ERROR_PATTERNS[p]))

\* the indices that include the models already tried
AvailableIndices_all(models_tried) ==
    [i \in 1..Len(AVAILABLE_BLACKBOX_MODELS) |-> i - 1]

\* lines 102-105
AvailableIndices(models_tried) ==
    SelectSeq([i \in 1..Len(AVAILABLE_BLACKBOX_MODELS) |-> i - 1],
              LAMBDA i : \A k \in 1..Len(models_tried) :
                             models_tried[k] # AVAILABLE_BLACKBOX_MODELS[i + 1])

\* the content a model answers with
ContentOf(model_name) == <<"content of", model_name>>

\* generate up to the end of the attempt on the current model, lines 68-112
GenerateCurrent ==
    /\ llm.pc = "idle"
    /\ llm.calls < MaxCalls
    /\ \E o \in AttemptOutcomes :
        LET call == [llm EXCEPT !.op = "generate", !.calls = @ + 1,
                                !.models_tried = <<llm.model_name>>,
                                !.available_indices = <<>>,
                                !.attempts = <<[model |-> llm.model_name,
                                                kind |-> o.kind, text |-> o.text]>>,
                                !.start_model = llm.model_name,
                                !.start_index = llm.current_model_index,
                                !.outcome = "none", !.content = NoValue]
            available_indices == AvailableIndices(call.models_tried)
        IN llm' = IF o.kind = "content"
                  THEN [call EXCEPT !.outcome = "returned",
                                    !.content = <<ContentOf(llm.model_name)>>]
                  ELSE IF ~is_quota_error(o.text)
                  THEN [call EXCEPT !.outcome = "LLMProviderError"]
                  ELSE IF available_indices = <<>>
                  THEN [call EXCEPT !.outcome = "LLMQuotaExceededError"]
                  ELSE [call EXCEPT !.pc = "fallback",
                                    !.available_indices = available_indices]
    /\ UNCHANGED <<chunkVars, indexVars, qa, cit, jobs>>

\* one turn of the loop over the remaining models, lines 115-149, and the
\* raise after its last turn, lines 151-155
GenerateFallback ==
    /\ llm.pc = "fallback"
    /\ \E o \in AttemptOutcomes :
        LET idx == Head(llm.available_indices)
            model_name == AVAILABLE_BLACKBOX_MODELS[idx + 1]
            tried == [llm EXCEPT !.attempts = Append(@, [model |-> model_name,
                                                         kind |-> o.kind,
                                                         text |-> o.text])]
            \* lines 128-129 come before the content is read (line 130)
            switched == [tried EXCEPT !.model_name = model_name,
                                      !.current_model_index = idx]
            after == IF o.kind = "raise" THEN tried ELSE switched
        IN llm' = IF o.kind = "content"
                  THEN [after EXCEPT !.pc = "idle", !.outcome = "returned",
                                     !.content = <<ContentOf(model_name)>>]
                  ELSE IF ~is_quota_error(o.text)
                  THEN [after EXCEPT !.pc = "idle", !.outcome = "LLMProviderError"]
                  ELSE IF Tail(llm.available_indices) = <<>>
                  THEN [after EXCEPT !.pc = "idle",
                                     !.models_tried = Append(@, model_name),
                                     !.available_indices = <<>>,
                                     !.outcome = "LLMQuotaExceededError"]
                  ELSE [after EXCEPT !.models_tried = Append(@, model_name),
                                     !.available_indices = Tail(@)]
    /\ UNCHANGED <<chunkVars, indexVars, qa, cit, jobs>>

\* lines 157-161
RotateModel ==
    /\ llm.pc = "idle"
    /\ llm.calls < MaxCalls
    /\ llm' = [llm EXCEPT
                  !.op = "rotate_model", !.calls = @ + 1,
                  !.current_model_index = (@ + 1) % Len(AVAILABLE_BLACKBOX_MODELS),
                  !.model_name = AVAILABLE_BLACKBOX_MODELS[
                      ((llm.current_model_index + 1) % Len(AVAILABLE_BLACKBOX_MODELS)) + 1]]
    /\ UNCHANGED <<chunkVars, indexVars, qa, cit, jobs>>

LLMInit ==
    /\ ctext = <<>>
    /\ cres = NoChunking
    /\ collection = [exists |-> FALSE, size |-> 0]
    /\ points = <<>>
    /\ resp = NoCall
    /\ qa = NoCall
    /\ cit = NoCitations
    /\ jobs = <<>>
    /\ \E model_name \in ModelArgs :
           llm \in {BlackboxClient(m) : m \in ChosenModels(model_name)}

LLMNext == GenerateCurrent \/ GenerateFallback \/ RotateModel

SpecLLM == LLMInit /\ [][LLMNext]_vars

(***************************************************************************)
(* Concurrent calls of RagIngestService.ingest on one event loop,          *)
(* rag_ingest_service.py:44-132.  A call gives up control where it awaits  *)
(* an embedding (embedding_service.py:59-64 runs the model in a thread     *)
(* pool); QdrantClient.upsert calls the synchronous client and runs to its *)
(* end without giving up control (qdrant_client.py:138-145).  jobs[j] is   *)
(* call j: its arguments, where it stands (pc), the embedding calls and    *)
(* the vector_store.upsert calls it has made, and the error it raised.     *)
(***************************************************************************)
\* the document of each call: two documents, the id of one a prefix of the
\* other's that continues with ':' and a digit
JobDocuments == << <<"a">>, <<"a", ":", "0">> >>

IngestJobs == DOMAIN JobDocuments

NewJob(document_id, source, text, metadata) ==
    [document_id |-> document_id, source |-> source, text |-> text,
     metadata |-> metadata, pc |-> "start", embed_calls |-> 0,
     store_calls |-> 0, error |-> None]

\* lines 70-84 of the call: its chunks
JobChunks(job) == IngestChunks[job.text]

\* lines 89-112 of the call: its points
JobPoints(job) ==
    BuildPoints(job.document_id, job.source, job.metadata, JobChunks(job).chunks,
                DEFAULT_EMBEDDING_DIMENSION)

\* lines 66-86: up to the first embedding call
StartIngest(j) ==
    /\ jobs[j].pc = "start"
    /\ jobs' = [jobs EXCEPT ![j] =
                   IF JobChunks(jobs[j]).raised # "none"
                   THEN [jobs[j] EXCEPT !.pc = "raised",
                                        !.error = JobChunks(jobs[j]).raised]
                   ELSE IF JobChunks(jobs[j]).chunks = <<>>
                   THEN [jobs[j] EXCEPT !.pc = "upsert"]
                   ELSE [jobs[j] EXCEPT !.pc = "embed"]]
    /\ UNCHANGED <<chunkVars, indexVars, qa, cit, llm>>

\* a call that goes on to the upsert after an embedding failed
Embedded_anyway(job, ok) ==
    [job EXCEPT !.embed_calls = @ + 1,
                !.error = IF ok THEN @ ELSE "EmbeddingServiceError",
                !.pc = IF job.embed_calls + 1 = Len(JobChunks(job).chunks)
                       THEN "upsert" ELSE "embed"]

\* line 92 for one chunk: the embedding is made (ok) or the provider raises
Embedded(job, ok) ==
    IF ~ok
    THEN [job EXCEPT !.embed_calls = @ + 1, !.pc = "raised",
                     !.error = "EmbeddingServiceError"]
    ELSE [job EXCEPT !.embed_calls = @ + 1,
                     !.pc = IF job.embed_calls + 1 = Len(JobChunks(job).chunks)
                            THEN "upsert" ELSE "embed"]

EmbedChunk(j) ==
    /\ jobs[j].pc = "embed"
    /\ \E ok \in BOOLEAN : jobs' = [jobs EXCEPT ![j] = Embedded(@, ok)]
    /\ UNCHANGED <<chunkVars, indexVars, qa, cit, llm>>

\* lines 115-132: vector_store.upsert(points) and the return
UpsertPoints(j) ==
    LET stored == upsert(collection, points, JobPoints(jobs[j]), "none")
    IN /\ jobs[j].pc = "upsert"
       /\ jobs' = [jobs EXCEPT ![j] =
                      [jobs[j] EXCEPT !.store_calls = @ + 1,
                                !.pc = IF stored.raised = "none" THEN "returned"
                                       ELSE "raised",
                                !.error = IF stored.raised = "none" THEN @
                                          ELSE stored.raised]]
       /\ collection' = stored.collection
       /\ points' = stored.points
       /\ UNCHANGED <<chunkVars, resp, qa, cit, llm>>

JobsInit ==
    /\ ctext = <<>>
    /\ cres = NoChunking
    /\ collection = [exists |-> FALSE, size |-> 0]
    /\ points = <<>>
    /\ resp = NoCall
    /\ qa = NoCall
    /\ cit = NoCitations
    /\ llm = NoCall
    /\ \E source \in Sources, metadata \in Metadatas :
           jobs \in {[j \in IngestJobs |->
                         NewJob(JobDocuments[j], source, texts[j], metadata)] :
                       texts \in [IngestJobs -> TextNames]}

JobsNext ==
    \E j \in IngestJobs : StartIngest(j) \/ EmbedChunk(j) \/ UpsertPoints(j)

SpecIngest == JobsInit /\ [][JobsNext]_vars

(***************************************************************************)
(* Properties                                                              *)
(***************************************************************************)
\* the last call was an ingest that the embedding provider or the index failed
ProviderFailed(r) == r.error \in {"EmbeddingServiceError", "VectorStoreError"}

\* the step is an ingest call that follows an ingest call of the same
\* document and text, and no provider failed in either
SameIngestAgain ==
    /\ resp.op = "ingest"
    /\ resp'.op = "ingest"
    /\ resp'.document_id = resp.document_id
    /\ resp'.text = resp.text
    /\ ~ProviderFailed(resp)
    /\ ~ProviderFailed(resp')

\* C1 as stated: ingest called twice with the same documentId and text
\* yields the same point ids and the same chunksUpserted both times, and
\* after the second call the index holds exactly chunksUpserted points for
\* the document.
C1_Original ==
    [][(SameIngestAgain /\ resp.outcome = "returned" /\ resp'.outcome = "returned")
        => /\ resp'.ids = resp.ids
           /\ resp'.result.chunksUpserted = resp.result.chunksUpserted
           /\ Cardinality(PointsOf(points', resp'.document_id))
                  = resp'.result.chunksUpserted]_vars

\* C1 amended: ingest called twice with the same documentId and text has the
\* same outcome both times (the same point ids and result, or the same error)
\* and the second call leaves the set of indexed point ids as the first left
\* it; the document holds exactly chunksUpserted points afterwards when it had
\* no points before the first call.
C1_Idempotent ==
    [][SameIngestAgain
        => /\ resp'.outcome = resp.outcome
           /\ resp'.error = resp.error
           /\ resp'.ids = resp.ids
           /\ resp'.result = resp.result
           /\ DOMAIN points' = DOMAIN points
           /\ (resp'.outcome = "returned" /\ resp.count_before = 0)
                  => Cardinality(PointsOf(points', resp'.document_id))
                         = resp'.result.chunksUpserted]_vars

\* a document ingested a second time with the same text: two points both times
C1_Witness ==
    /\ resp.op = "ingest"
    /\ resp.repeat
    /\ resp.outcome = "returned"
    /\ resp.result.chunksUpserted = 2
    /\ resp.count_before = 2
    /\ Cardinality(PointsOf(points, resp.document_id)) = 2

\* C2 as stated: for every section text longer than MAX_CHUNK_SIZE (with
\* something other than whitespace in it) _chunk_section returns at least two
\* chunks and does not raise.
C2_LongSectionChunked ==
    (/\ cres.op = "chunk_section"
     /\ Len(ctext) > MAX_CHUNK_SIZE
     /\ Strip(ctext) # <<>>)
        => /\ cres.raised = "none"
           /\ Len(cres.chunks) >= 2

\* C3 as stated: ingest of an empty or whitespace-only text returns
\* chunksUpserted = 0 with status "ok" and calls neither the embedding
\* provider nor the vector store.
C3_EmptyTextNoCalls ==
    (/\ resp.op = "ingest"
     /\ Strip(IngestTexts[resp.text]) = <<>>)
        => /\ resp.outcome = "returned"
           /\ resp.result.chunksUpserted = 0
           /\ "status" \in DOMAIN resp.result
           /\ resp.result.status = "ok"
           /\ resp.embed_calls = 0
           /\ resp.store_calls = 0

\* C4 as stated: every chunk ingest produces for embedding is at most the
\* chunk size in force, CHUNK_SIZE_CHARS, long.
C4_Original ==
    cres.op = "all_chunks"
        => \A i \in 1..Len(cres.chunks) : Len(cres.chunks[i]) <= CHUNK_SIZE_CHARS

\* C4 amended: every chunk ingest produces for embedding is at most
\* MAX_CHUNK_SIZE long.
C4_ChunkSize ==
    cres.op = "all_chunks"
        => \A i \in 1..Len(cres.chunks) : Len(cres.chunks[i]) <= MAX_CHUNK_SIZE

\* a chunk of MAX_CHUNK_SIZE characters, more than CHUNK_SIZE_CHARS
C4_Witness ==
    /\ cres.op = "all_chunks"
    /\ cres.raised = "none"
    /\ \E i \in 1..Len(cres.chunks) : Len(cres.chunks[i]) = MAX_CHUNK_SIZE

\* C5 as stated: every line of the document text that is not whitespace is
\* inside at least one of the chunks produced.
C5_Coverage ==
    (cres.op = "all_chunks" /\ cres.raised = "none")
        => \A l \in 1..Len(SplitLines(ctext)) :
               Strip(SplitLines(ctext)[l]) # <<>>
                   => \E i \in 1..Len(cres.chunks) :
                          Contains(cres.chunks[i], Strip(SplitLines(ctext)[l]))

\* the text has no whitespace: no sentence or word boundary
NoBoundary(text) == \A i \in 1..Len(text) : text[i] \notin Whitespace

\* the last n characters of a, the first n characters of b
LastChars(a, n) == SubSeq(a, Len(a) - n + 1, Len(a))

FirstChars(b, n) == SubSeq(b, 1, n)

\* C6 as stated: a section without boundaries that is longer than
\* MAX_CHUNK_SIZE is split into character windows, and the last OVERLAP_CHARS
\* characters of each chunk are the first OVERLAP_CHARS of the next.
C6_WindowOverlap ==
    (/\ cres.op = "chunk_section"
     /\ Len(ctext) > MAX_CHUNK_SIZE
     /\ NoBoundary(ctext))
        => /\ cres.raised = "none"
           /\ Len(cres.chunks) >= 2
           /\ \A i \in 1..(Len(cres.chunks) - 1) :
                  /\ Len(cres.chunks[i]) >= OVERLAP_CHARS
                  /\ Len(cres.chunks[i + 1]) >= OVERLAP_CHARS
                  /\ LastChars(cres.chunks[i], OVERLAP_CHARS)
                         = FirstChars(cres.chunks[i + 1], OVERLAP_CHARS)

\* C7: an ingest request with chunk_overlap >= chunk_size, or with chunk_size
\* outside 300..4000, is answered 422 without the service being called; every
\* request for which the service is called has chunk_overlap < chunk_size.
C7_OverlapValidated ==
    resp.op = "ingest_document"
        => /\ (/\ resp.chunk_size # NoValue
               /\ resp.chunk_overlap # NoValue
               /\ resp.chunk_overlap[1] >= resp.chunk_size[1])
                  => (resp.status_code = 422 /\ ~resp.service_called)
           /\ (/\ resp.chunk_size # NoValue
               /\ (resp.chunk_size[1] < 300 \/ resp.chunk_size[1] > 4000))
                  => (resp.status_code = 422 /\ ~resp.service_called)
           /\ (/\ resp.service_called
               /\ resp.chunk_size # NoValue
               /\ resp.chunk_overlap # NoValue)
                  => resp.chunk_overlap[1] < resp.chunk_size[1]

\* a request with chunk_overlap = chunk_size, both inside their ranges
C7_Witness ==
    /\ resp.op = "ingest_document"
    /\ resp.chunk_size = <<300>>
    /\ resp.chunk_overlap = <<300>>
    /\ resp.status_code = 422
    /\ ~resp.service_called

\* the results a search filtered by document_id can have when nothing fails
SearchByDocument(document_id) ==
    UNION {search(collection, points, query_text, top_k,
                  [document_id |-> <<document_id>>, source |-> NoValue,
                   symbol |-> NoValue], DEFAULT_EMBEDDING_DIMENSION, "none") :
             query_text \in QueryTexts, top_k \in TopKs}

C9_DeleteNothing ==
    [][(resp'.op = "delete_document" /\ resp'.fail = "none")
        => /\ resp'.count_before = 0
                  => /\ resp'.status_code = 200
                     /\ resp'.body.deleted = 0
                     /\ points' = points
                     /\ collection' = collection
           /\ resp'.repeat => (resp'.status_code = 200 /\ resp'.body.deleted = 0)]_vars

\* a document deleted a second time, with points of the other document left
C9_Witness ==
    /\ resp.op = "delete_document"
    /\ resp.repeat
    /\ resp.status_code = 200
    /\ resp.body.deleted = 0
    /\ DOMAIN points # {}

C11_GracefulDegradation ==
    (qa.op = "answer_question" /\ qa.store.fail # "none" /\ qa.llm_fail = "none")
        => /\ qa.outcome = "returned"
           /\ qa.error = None
           /\ qa.sources = <<>>
           /\ qa.prompt.documents = <<>>
           /\ qa.answer = LLMAnswer(Prompt(qa.question, qa.base_context, <<>>))

\* the store raised VectorStoreError, a base context was given, and the
\* answer came back without sources
C11_Witness ==
    /\ qa.op = "answer_question"
    /\ qa.store.fail = "VectorStoreError"
    /\ qa.base_context = "ctx"
    /\ qa.outcome = "returned"
    /\ qa.prompt.base_context = <<"ctx">>
    /\ qa.sources = <<>>

\* C12: when an embedding call or the upsert of the vector store fails during
\* ingest, ingest raises to its caller and returns no result: no
\* chunksUpserted is reported for a failed ingest.
C12_IngestFailsHard ==
    (resp.op = "ingest" /\ (resp.embed_fail # 0 \/ resp.fail # "none"))
        => /\ resp.outcome = "raised"
           /\ resp.error \in {"EmbeddingServiceError", "VectorStoreError"}
           /\ resp.result = NoResult
           /\ resp.ids = {}

\* the upsert failed after both chunks of a document had been embedded
C12_Witness ==
    /\ resp.op = "ingest"
    /\ resp.outcome = "raised"
    /\ resp.error = "VectorStoreError"
    /\ resp.fail = "upsert"
    /\ resp.embed_calls = 2
    /\ resp.store_calls = 1
    /\ resp.result = NoResult

(***************************************************************************)
(* Citations                                                               *)
(***************************************************************************)
\* the answer holds the marker of n in brackets, as one or two digits
Cites(answer, n) ==
    \/ n <= 99 /\ Contains(answer, <<"[">> \o DecStr(n) \o <<"]">>)
    \/ n <= 9 /\ Contains(answer, <<"[", "0">> \o DecStr(n) \o <<"]">>)

\* _extract_citations or answer_question returned a list of citations
Cited == cit.op # "none" /\ cit.raised = "none"

C14_CitationFallback ==
    Cited => /\ cit.citations = <<0>>
                  <=> \A n \in 1..cit.count : Cites(cit.answer, n) => n = 1
             /\ cit.citations # <<>>

\* two context parts, an answer whose only bracketed number is out of range
C14_Witness ==
    /\ Cited
    /\ cit.count = 2
    /\ Cites(cit.answer, 12)
    /\ \A n \in 1..cit.count : ~Cites(cit.answer, n)
    /\ cit.citations = <<0>>

\* a left bracket followed by three or more digits
LongRunAt(answer, i) ==
    /\ answer[i] = "["
    /\ i + 3 <= Len(answer)
    /\ \A d \in 1..3 : answer[i + d] \in Digits

\* the answer with the left bracket of every such run replaced by a letter
WithoutLongRuns(answer) ==
    [i \in 1..Len(answer) |-> IF LongRunAt(answer, i) THEN "a" ELSE answer[i]]

\* C15: a bracketed run of three or more digits contributes no citation,
\* whatever the context count: the citations are those of the answer without
\* these runs, and no index of 99 or more is returned.
C15_LongRunsRejected ==
    Cited => /\ cit.citations = extract_citations(WithoutLongRuns(cit.answer),
                                                    cit.count)
             /\ \A k \in 1..Len(cit.citations) : cit.citations[k] < 99

\* 123 context parts, an answer with [123] and [2]: only [2] is a citation
C15_Witness ==
    /\ Cited
    /\ cit.count = 123
    /\ Contains(cit.answer, <<"[", "1", "2", "3", "]">>)
    /\ cit.citations = <<1>>

\* C16: the list returned is strictly ascending, and unless it is the
\* fallback it holds i exactly for the markers [i+1] of the answer that are
\* within 1..context_count.
C16_SortedZeroBased ==
    Cited => /\ \A j, k \in 1..Len(cit.citations) :
                    j < k => cit.citations[j] < cit.citations[k]
             /\ (\E n \in 1..cit.count : Cites(cit.answer, n))
                    => {cit.citations[k] : k \in 1..Len(cit.citations)}
                           = {n - 1 : n \in {m \in 1..cit.count :
                                                  Cites(cit.answer, m)}}

\* an answer that cites [2] before [1], and [1] twice
C16_Witness ==
    /\ Cited
    /\ cit.answer = <<"[", "2", "]", "[", "1", "]", "[", "1", "]">>
    /\ cit.count = 2
    /\ cit.citations = <<0, 1>>

(***************************************************************************)
(* Sources of an answer                                                    *)
(***************************************************************************)
\* answer_question returned an answer and its sources
Answered == qa.op = "answer_question" /\ qa.outcome = "returned"

\* the hit of the store a returned source was made from
HitOf(source_obj) ==
    CHOOSE i \in 1..Len(qa.store.hits) : qa.store.hits[i].chunkId = source_obj.chunkId

\* C17: the sources returned are in non-increasing score order, at most top_k,
\* and the top_k best of the hits the store returned, in whatever order the
\* store returned them.
C17_RankedTruncated ==
    Answered =>
        LET returned == {qa.sources[k].chunkId : k \in 1..Len(qa.sources)}
        IN /\ \A j, k \in 1..Len(qa.sources) :
                  j < k => qa.sources[j].score >= qa.sources[k].score
           /\ Len(qa.sources) <= qa.top_k
           /\ Len(qa.sources) = Min(qa.top_k, Len(qa.store.hits))
           /\ Cardinality(returned) = Len(qa.sources)
           /\ \A k \in 1..Len(qa.sources) :
                  \E i \in 1..Len(qa.store.hits) :
                      /\ qa.store.hits[i].chunkId = qa.sources[k].chunkId
                      /\ qa.store.hits[i].score = qa.sources[k].score
           /\ \A i \in 1..Len(qa.store.hits) :
                  qa.store.hits[i].chunkId \notin returned
                      => \A k \in 1..Len(qa.sources) :
                             qa.sources[k].score >= qa.store.hits[i].score

\* three hits returned by the store with the worst one first, two asked for
C17_Witness ==
    /\ Answered
    /\ qa.top_k = 2
    /\ Len(qa.store.hits) = 3
    /\ qa.store.hits[1].score < qa.store.hits[2].score
    /\ qa.store.hits[1].score < qa.store.hits[3].score
    /\ Len(qa.sources) = 2
    /\ qa.sources[1].score > qa.store.hits[1].score

\* the first n characters of a text, the whole text when it is shorter
Prefix(text, n) == SubSeq(text, 1, Min(n, Len(text)))

\* C18 as stated: no returned source has a text field, and its textPreview is
\* the first 350 characters of the hit's chunk text.
C18_Original ==
    Answered =>
        \A k \in 1..Len(qa.sources) :
            /\ "text" \notin DOMAIN qa.sources[k]
            /\ Len(qa.sources[k].textPreview) <= TextPreviewLimit
            /\ qa.sources[k].textPreview
                   = Prefix(qa.store.hits[HitOf(qa.sources[k])].text, TextPreviewLimit)

\* C18 amended: no returned source has a text field, and its textPreview is
\* the first 350 characters of the hit's chunk text with the whitespace at
\* its ends removed, so it is never longer than 350 characters.
C18_TextPreview ==
    Answered =>
        \A k \in 1..Len(qa.sources) :
            /\ "text" \notin DOMAIN qa.sources[k]
            /\ Len(qa.sources[k].textPreview) <= TextPreviewLimit
            /\ qa.sources[k].textPreview
                   = Prefix(Strip(qa.store.hits[HitOf(qa.sources[k])].text),
                            TextPreviewLimit)

\* a returned source made from a chunk of 351 characters that starts with a
\* blank, and one made from a chunk of 351 letters
C18_Witness ==
    /\ Answered
    /\ \E k \in 1..Len(qa.sources) :
           /\ qa.store.hits[HitOf(qa.sources[k])].text = PaddedChunk
           /\ qa.sources[k].textPreview = Rep("a", TextPreviewLimit)
    /\ \E k \in 1..Len(qa.sources) :
           /\ qa.store.hits[HitOf(qa.sources[k])].text = LongChunk
           /\ Len(qa.sources[k].textPreview) = TextPreviewLimit

\* C19: the search issued by answer_question has one must condition for
\* each of document_id, source, symbol that is not None, on the payload keys
\* documentId, source, symbol, and no others; with all three None it is
\* issued with no filter.
C19_FilterConstruction ==
    qa.op = "answer_question" =>
        /\ qa.search_conditions
               = {<<"documentId", v[1]>> : v \in {qa.document_id} \ {NoValue}}
                 \cup {<<"source", v[1]>> : v \in {qa.source} \ {NoValue}}
                 \cup {<<"symbol", v[1]>> : v \in {qa.symbol} \ {NoValue}}
        /\ qa.search_filters = NoValue
               <=> (qa.document_id = NoValue /\ qa.source = NoValue
                      /\ qa.symbol = NoValue)

\* a question filtered by document and symbol but not by source
C19_Witness ==
    /\ qa.op = "answer_question"
    /\ qa.document_id = <<<<"a", ":", "0">>>>
    /\ qa.source = NoValue
    /\ qa.symbol = <<"FPT">>
    /\ Cardinality(qa.search_conditions) = 2

(***************************************************************************)
(* The result of an ingest                                                 *)
(***************************************************************************)
\* the keys a written payload is to carry
PayloadKeys ==
    {"documentId", "source", "sourceUrl", "title", "section", "symbol",
     "chunkId", "text"}

\* C20: a successful ingest returns chunksUpserted equal to the number of
\* points it wrote, the given documentId, the collection name and status
\* "ok", and every payload it wrote carries documentId, source, sourceUrl,
\* title, section, symbol, chunkId and text.
C20_IngestResult ==
    (resp.op = "ingest" /\ resp.outcome = "returned")
        => /\ resp.result.chunksUpserted = Cardinality(resp.ids)
           /\ resp.result.documentId = resp.document_id
           /\ resp.result.collection = DEFAULT_QDRANT_COLLECTION_NAME
           /\ "status" \in DOMAIN resp.result
           /\ resp.result.status = "ok"
           /\ \A id \in resp.ids :
                  /\ id \in DOMAIN points
                  /\ PayloadKeys \subseteq DOMAIN points[id].payload


\* C21: an ingest that creates the collection creates it with a vector size
\* equal to the length of the embeddings of its chunks, and every stored
\* vector has the length the collection was created with.
C21_CollectionDimension ==
    [][/\ (resp'.op = "ingest" /\ ~collection.exists /\ collection'.exists)
           => collection'.size = resp'.dim
       /\ \A id \in DOMAIN points' : points'[id].vector.dim = collection'.size]_vars


\* C22: a search against a collection that does not exist returns an empty
\* list without raising and does not create the collection; a search that
\* the index fails in any other way (an error of the client, or a request the
\* index rejects) raises VectorStoreError.
C22_SearchMissingCollection ==
    [][resp'.op = "search" =>
          /\ collection' = collection
          /\ (~collection.exists /\ resp'.fail = "none")
                 => (resp'.error = "none" /\ resp'.sources = <<>>)
          /\ (collection.exists /\ (resp'.fail = "search" \/ resp'.dim # collection.size))
                 => resp'.error = "VectorStoreError"]_vars


\* C23: a question-answering request that fails because the LLM fails
\* (provider error or quota exhausted) is answered with a message that does
\* not carry the text of the internal exception.
C23_GenericLLMFailure ==
    (/\ qa.op = "answer_question"
     /\ qa.outcome = "raised"
     /\ qa.error \in {"LLMProviderError", "LLMQuotaExceededError"})
        => qa.response.message # ExceptionText(qa.error)


\* the last request went through the API-key gate of a RAG endpoint
Gated(r) == r.op \in {"validate_api_key", "ingest_document", "delete_document"}

\* C24: with an internal API key configured, an ingest or delete request
\* whose X-Internal-Api-Key header is missing or different from the key is
\* answered 401, the service is not called and the index is left as it was;
\* with no key configured no request is answered 401.
C24_ApiKeyGate ==
    [][Gated(resp') =>
          /\ (/\ ~Falsy(resp'.expected_key)
              /\ resp'.x_internal_api_key # resp'.expected_key)
                 => /\ resp'.status_code = 401
                    /\ ~resp'.service_called
                    /\ points' = points
                    /\ collection' = collection
          /\ Falsy(resp'.expected_key)
                 => (resp'.status_code # 401 /\ resp'.op # "validate_api_key")]_vars

C24_Witness ==
    /\ resp.op = "validate_api_key"
    /\ resp.route = "delete_document"
    /\ resp.expected_key = <<"k">>
    /\ resp.x_internal_api_key = <<"x">>
    /\ resp.status_code = 401
    /\ DOMAIN points # {}


(***************************************************************************)
(* BlackboxClient                                                          *)
(***************************************************************************)
\* attempt i of the call ended in an error that names no quota
NonQuotaError(a) == a.kind # "content" /\ a.text \notin QuotaErrorTexts

\* attempt i of the call ended in an error that names a quota
QuotaError(a) == a.kind = "raise" /\ a.text \in QuotaErrorTexts

\* C25: generate raises LLMProviderError at the first error of a model,
\* current or fallback, that is not a quota error: that attempt is the last
\* of the call and the call does not end in LLMQuotaExceededError.
C25_NonQuotaRaisesImmediately ==
    \A i \in 1..Len(llm.attempts) :
        NonQuotaError(llm.attempts[i])
            => /\ i = Len(llm.attempts)
               /\ llm.pc = "idle"
               /\ llm.outcome = "LLMProviderError"

C25_Witness ==
    /\ llm.op = "generate"
    /\ Len(llm.attempts) = 2
    /\ QuotaError(llm.attempts[1])
    /\ llm.attempts[2].kind = "raise"
    /\ llm.attempts[2].text \in OtherErrorTexts
    /\ llm.outcome = "LLMProviderError"

\* the models of the list other than model_name, in list order
OtherModels(model_name) ==
    SelectSeq(AVAILABLE_BLACKBOX_MODELS, LAMBDA m : m # model_name)

\* C26: within one generate call every model is attempted at most once, the
\* current model first and then the others in list order; the call stops at
\* the first attempt that is not a quota error and returns the content of
\* the first model that answers; when every model fails with a quota error
\* it raises LLMQuotaExceededError after exactly
\* len(AVAILABLE_BLACKBOX_MODELS) attempts.
C26_QuotaFailover ==
    LET a == llm.attempts
        n == Len(a)
    IN llm.op = "generate" =>
        /\ n >= 1 /\ n <= Len(AVAILABLE_BLACKBOX_MODELS)
        /\ \A i, j \in 1..n : i < j => a[i].model # a[j].model
        /\ a[1].model = llm.start_model
        /\ \A i \in 2..n : a[i].model = OtherModels(llm.start_model)[i - 1]
        /\ \A i \in 1..(n - 1) : QuotaError(a[i])
        /\ a[n].kind = "content"
              => /\ llm.pc = "idle"
                 /\ llm.outcome = "returned"
                 /\ llm.content = <<ContentOf(a[n].model)>>
        /\ llm.outcome = "returned" => a[n].kind = "content"
        /\ (QuotaError(a[n]) /\ n < Len(AVAILABLE_BLACKBOX_MODELS))
              => (llm.pc = "fallback" /\ llm.outcome = "none")
        /\ (QuotaError(a[n]) /\ n = Len(AVAILABLE_BLACKBOX_MODELS))
              => (llm.pc = "idle" /\ llm.outcome = "LLMQuotaExceededError")
        /\ llm.outcome = "LLMQuotaExceededError"
              => (n = Len(AVAILABLE_BLACKBOX_MODELS) /\ QuotaError(a[n]))

C26_Witness ==
    /\ llm.op = "generate"
    /\ llm.start_model = AVAILABLE_BLACKBOX_MODELS[2]
    /\ Len(llm.attempts) = Len(AVAILABLE_BLACKBOX_MODELS)
    /\ llm.attempts[2].model = AVAILABLE_BLACKBOX_MODELS[1]
    /\ llm.attempts[3].model = AVAILABLE_BLACKBOX_MODELS[3]
    /\ llm.outcome = "LLMQuotaExceededError"

\* C30: model_name is always a model of AVAILABLE_BLACKBOX_MODELS and
\* current_model_index is its index; a generate call that raised left both
\* as they were when it started, and one that returned the content of a
\* fallback model made that model the current one.
C30_ModelNameInvariant ==
    /\ llm.model_name \in ModelNames
    /\ AVAILABLE_BLACKBOX_MODELS[llm.current_model_index + 1] = llm.model_name
    /\ (/\ llm.op = "generate"
        /\ llm.outcome \in {"LLMProviderError", "LLMQuotaExceededError"})
          => /\ llm.model_name = llm.start_model
             /\ llm.current_model_index = llm.start_index
    /\ (llm.op = "generate" /\ llm.outcome = "returned")
          => llm.model_name = llm.attempts[Len(llm.attempts)].model


(***************************************************************************)
(* Ingest and the points already stored                                    *)
(***************************************************************************)
\* C27: ingest never removes points: every point that was in the index
\* before an ingest is still there after it, and those whose ids the ingest
\* did not regenerate keep their old content; only delete_document takes
\* points out of the index.
C27_IngestNeverRemoves ==
    [][/\ resp'.op = "ingest"
           => \A id \in DOMAIN points :
                  /\ id \in DOMAIN points'
                  /\ id \notin resp'.ids => points'[id] = points[id]
       /\ (DOMAIN points \ DOMAIN points' # {}) => resp'.op = "delete_document"]_vars

C27_Witness ==
    /\ resp.op = "ingest"
    /\ resp.outcome = "returned"
    /\ resp.count_before > Cardinality(resp.ids)
    /\ \E id \in PointsOf(points, resp.document_id) : id \notin resp.ids


(***************************************************************************)
(* Concurrent ingests                                                      *)
(***************************************************************************)
\* document ids of up to three characters, with ':' and digits in any place,
\* and section and chunk indices of one and of two digits
ScopeDocIds ==
    UNION {[1..n -> {"a", ":", "0"}] : n \in 1..3}

ScopeIndices == {0, 1, 10}

\* a point id is the id of one document, section and chunk only
PointIdsScoped ==
    \A d1, d2 \in ScopeDocIds :
        \A s1, c1, s2, c2 \in ScopeIndices :
            PointId(d1, s1, c1) = PointId(d2, s2, c2)
                => (d1 = d2 /\ s1 = s2 /\ c1 = c2)

\* the ids of the points of call j
JobIds(j) == {JobPoints(jobs[j])[i].id : i \in 1..Len(JobPoints(jobs[j]))}

\* C28: the point ids of two different documents are disjoint and the ids of
\* one ingest are pairwise distinct, so however concurrent ingests of
\* different documents interleave, the points an ingest has written are
\* never overwritten by the other and the index holds exactly the union of
\* the points of the ingests that have returned.
C28_DocumentScopedIds ==
    /\ PointIdsScoped
    /\ \A j \in DOMAIN jobs :
           Cardinality(JobIds(j)) = Len(JobPoints(jobs[j]))
    /\ \A j, k \in DOMAIN jobs : j # k => JobIds(j) \cap JobIds(k) = {}
    /\ \A j \in DOMAIN jobs :
           jobs[j].pc = "returned"
               => \A i \in 1..Len(JobPoints(jobs[j])) :
                      LET p == JobPoints(jobs[j])[i]
                      IN /\ p.id \in DOMAIN points
                         /\ points[p.id] = [vector |-> p.vector,
                                            payload |-> p.payload]
    /\ DOMAIN points = UNION {JobIds(j) : j \in {k \in DOMAIN jobs :
                                                    jobs[k].pc = "returned"}}

C28_Witness ==
    /\ DOMAIN jobs # {}
    /\ \A j \in DOMAIN jobs : jobs[j].pc = "returned"
    /\ Cardinality(JobIds(1)) = 2
    /\ Cardinality(JobIds(2)) = 2
    /\ Cardinality(DOMAIN points) = 4

\* C29: within one ingest every embedding call comes before the one upsert
\* call: an embedding call is made only while the ingest has not called
\* upsert, and leaves the index alone; upsert is called at most once and only
\* after every chunk was embedded without error; an ingest whose embedding
\* failed has raised and never calls upsert; and the index changes only in
\* the step of an upsert call.
C29_EmbeddingsBeforeUpsert ==
    [][/\ \A j \in DOMAIN jobs :
              /\ jobs'[j].embed_calls # jobs[j].embed_calls
                     => /\ jobs[j].store_calls = 0
                        /\ collection' = collection
                        /\ points' = points
              /\ jobs'[j].store_calls # jobs[j].store_calls
                     => /\ jobs[j].store_calls = 0
                        /\ jobs[j].error = None
                        /\ jobs[j].embed_calls = Len(JobChunks(jobs[j]).chunks)
              /\ jobs'[j].error = "EmbeddingServiceError"
                     => (jobs'[j].pc = "raised" /\ jobs'[j].store_calls = 0)
       /\ (collection' # collection \/ points' # points)
              => \E j \in DOMAIN jobs : jobs'[j].store_calls # jobs[j].store_calls]_vars

C29_Witness ==
    /\ DOMAIN jobs # {}
    /\ jobs[1].error = "EmbeddingServiceError"
    /\ jobs[1].embed_calls = 2
    /\ jobs[1].store_calls = 0
    /\ jobs[2].pc = "returned"
    /\ DOMAIN points = JobIds(2)

====
